---- MODULE Spec2Model ----
(***************************************************************************)
(* Model of app.py: the boolean sentence search of the Streamlit           *)
(* dashboard.  Strings are sequences of one-character strings, so that     *)
(* upper(), lower(), replace(), split() and the regular expressions of     *)
(* the code are computed character by character.  Python's True, False     *)
(* and None are the strings "True", "False" and "None": the stack of       *)
(* eval_query mixes booleans with the markers "AND" and "OR".              *)
(***************************************************************************)
EXTENDS Integers, Sequences, FiniteSets, TLC

VARIABLES
    pc,             \* position in the script / in eval_query
    query,          \* the text of the query input
    words,          \* eval_query's argument: the words of one sentence
    tokens,         \* eval_query: the token list
    ti,             \* eval_query: index of the next token of the first loop
    stack,          \* eval_query: the stack of booleans and markers
    ri,             \* eval_query: index of the next item of the second loop
    result,         \* eval_query: the accumulator, "None" at first
    op,             \* eval_query: the last marker seen, "None" at first
    ret,            \* eval_query: the returned value
    raw,            \* the text handed to split_sentences
    text,           \* split_sentences: its local text, normalised by line 43
    pieces,         \* split_sentences: what re.split returned
    sents,          \* split_sentences: the returned list
    corpus,         \* the script: name -> raw text
    sentences_map,  \* the script: name -> list of sentences
    fi,             \* the script: index of the source being loaded or scanned
    idx,            \* the script: enumerate's index of the next sentence
    rows,           \* the script: the match records
    match_counts,   \* the script: the defaultdict(int), as a function on its keys
    total           \* the script: the dashboard's total metric

vars == <<pc, query, words, tokens, ti, stack, ri, result, op, ret, raw, text, pieces,
          sents, corpus, sentences_map, fi, idx, rows, match_counts, total>>

evalVars == <<words, tokens, ti, stack, ri, result, op, ret>>
segVars == <<raw, text, pieces, sents>>
scriptVars == <<corpus, sentences_map, fi, idx, rows, match_counts, total>>

(***************************************************************************)
(* Bounds of the model.                                                    *)
(***************************************************************************)
\* MaxTokens: lexemes in a query; MaxOperands: terms in an alternating query;
\* MaxTextLen: characters in a text given to split_sentences; NumSources: the
\* entries of GITHUB_FILES that are loaded and scanned (the script lists four);
\* MaxSents: sentences in a fetched text.
MaxTokens == 4
MaxOperands == 3
MaxTextLen == 5
NumSources == 2
MaxSents == 2

(***************************************************************************)
(* Characters and strings.                                                 *)
(***************************************************************************)
LowerLetters == <<"a", "b", "c", "d", "n", "o", "r", "t", "v">>
UpperLetters == <<"A", "B", "C", "D", "N", "O", "R", "T", "V">>

Whitespace == {" ", "\t", "\n", "\r"}

\* str.upper() on one character
UpperChar(c) ==
    IF \E k \in DOMAIN LowerLetters : LowerLetters[k] = c
    THEN UpperLetters[CHOOSE k \in DOMAIN LowerLetters : LowerLetters[k] = c]
    ELSE c

\* str.lower() on one character
LowerChar(c) ==
    IF \E k \in DOMAIN UpperLetters : UpperLetters[k] = c
    THEN LowerLetters[CHOOSE k \in DOMAIN UpperLetters : UpperLetters[k] = c]
    ELSE c

Upper(s) == [k \in DOMAIN s |-> UpperChar(s[k])]
Lower(s) == [k \in DOMAIN s |-> LowerChar(s[k])]

RECURSIVE Concat(_)
Concat(ss) == IF ss = <<>> THEN <<>> ELSE Head(ss) \o Concat(Tail(ss))

\* str.replace(c, by) for a one-character c
Replace(s, c, by) == Concat([k \in DOMAIN s |-> IF s[k] = c THEN by ELSE <<s[k]>>])

\* str.split() with no argument: the maximal runs of non-whitespace characters
RECURSIVE SplitFrom(_, _, _)
SplitFrom(s, cur, acc) ==
    IF s = <<>>
    THEN IF cur = <<>> THEN acc ELSE Append(acc, cur)
    ELSE IF Head(s) \in Whitespace
         THEN SplitFrom(Tail(s), <<>>, IF cur = <<>> THEN acc ELSE Append(acc, cur))
         ELSE SplitFrom(Tail(s), Append(cur, Head(s)), acc)

Split(s) == SplitFrom(s, <<>>, <<>>)

\* str.strip() with no argument
RECURSIVE LStrip(_)
LStrip(s) == IF s # <<>> /\ Head(s) \in Whitespace THEN LStrip(Tail(s)) ELSE s

RECURSIVE RStrip(_)
RStrip(s) ==
    IF s # <<>> /\ s[Len(s)] \in Whitespace THEN RStrip(SubSeq(s, 1, Len(s) - 1)) ELSE s

Strip(s) == RStrip(LStrip(s))

(***************************************************************************)
(* eval_query.                                                             *)
(***************************************************************************)
TokNOT == <<"N", "O", "T">>
TokAND == <<"A", "N", "D">>
TokOR == <<"O", "R">>
TokLParen == <<"(">>
TokRParen == <<")">>

IsBool(item) == item \in {"True", "False"}
PyNot(b) == IF b = "True" THEN "False" ELSE "True"
PyAnd(x, y) == IF x = "True" THEN y ELSE x
PyOr(x, y) == IF x = "True" THEN x ELSE y
PyBool(x) == IF x = "True" THEN "True" ELSE "False"
FromBool(b) == IF b THEN "True" ELSE "False"

TokenizeNoParenSpacing(q) == Split(Upper(q))

\* q = query.upper().replace("(", " ( ").replace(")", " ) "); tokens = q.split()
Tokenize(q) ==
    Split(Replace(Replace(Upper(q), "(", <<" ", "(", " ">>), ")", <<" ", ")", " ">>))

\* lw = [w.lower() for w in words]
LowerWords(ws) == [k \in DOMAIN ws |-> Lower(ws[k])]

\* term_match: term.lower() in lw
TermMatch(term, ws) ==
    FromBool(\E k \in DOMAIN ws : LowerWords(ws)[k] = Lower(term))

\* the NOT branch: flip the top of the stack when it is a boolean, else push True
NotStep(st) ==
    IF st # <<>> /\ IsBool(st[Len(st)])
    THEN [st EXCEPT ![Len(st)] = PyNot(@)]
    ELSE Append(st, "True")

\* one iteration of the first loop, on token t
PushToken(st, t, ws) ==
    IF t = TokNOT THEN NotStep(st)
    ELSE IF t = TokAND THEN Append(st, "AND")
    ELSE IF t = TokOR THEN Append(st, "OR")
    ELSE IF t \in {TokLParen, TokRParen} THEN st
    ELSE Append(st, TermMatch(t, ws))

FoldBoolResettingOp(acc, item) ==
    IF acc.result = "None" THEN [acc EXCEPT !.result = item]
    ELSE IF acc.op = "AND" THEN [result |-> PyAnd(acc.result, item), op |-> "None"]
    ELSE IF acc.op = "OR" THEN [result |-> PyOr(acc.result, item), op |-> "None"]
    ELSE acc

FoldBoolSwapped(acc, item) ==
    IF acc.result = "None" THEN [acc EXCEPT !.result = item]
    ELSE IF acc.op = "AND" THEN [acc EXCEPT !.result = PyOr(acc.result, item)]
    ELSE IF acc.op = "OR" THEN [acc EXCEPT !.result = PyAnd(acc.result, item)]
    ELSE acc

\* the boolean branch of the second loop; acc is [result, op]
FoldBool(acc, item) ==
    IF acc.result = "None" THEN [acc EXCEPT !.result = item]
    ELSE IF acc.op = "AND" THEN [acc EXCEPT !.result = PyAnd(acc.result, item)]
    ELSE IF acc.op = "OR" THEN [acc EXCEPT !.result = PyOr(acc.result, item)]
    ELSE acc

\* one iteration of the second loop, on stack item
FoldItem(acc, item) ==
    IF IsBool(item) THEN FoldBool(acc, item) ELSE [acc EXCEPT !.op = item]

ReturnValueUnconverted(res) == res

\* return bool(result)
ReturnValue(res) == PyBool(res)

RECURSIVE WalkTokens(_, _, _)
WalkTokens(st, ts, ws) ==
    IF ts = <<>> THEN st ELSE WalkTokens(PushToken(st, Head(ts), ws), Tail(ts), ws)

RECURSIVE FoldStack(_, _)
FoldStack(acc, st) ==
    IF st = <<>> THEN acc ELSE FoldStack(FoldItem(acc, Head(st)), Tail(st))

\* eval_query as a function, as the search loop calls it
EvalQuery(q, ws) ==
    ReturnValue(FoldStack([result |-> "None", op |-> "None"],
                          WalkTokens(<<>>, Tokenize(q), ws)).result)

(***************************************************************************)
(* split_sentences and get_words.                                          *)
(***************************************************************************)
\* the terminators of the pattern that occur in the modelled texts
Terminators == {"!", ";"}
Blanks == {" ", "\t"}

\* re.sub(r"[ \t]+", " ", s): each maximal run of blanks becomes one space
RECURSIVE CollapseBlanks(_)
CollapseBlanks(s) ==
    IF s = <<>> THEN <<>>
    ELSE IF Head(s) \in Blanks
         THEN IF Len(s) > 1 /\ s[2] \in Blanks
              THEN CollapseBlanks(Tail(s))
              ELSE <<" ">> \o CollapseBlanks(Tail(s))
         ELSE <<Head(s)>> \o CollapseBlanks(Tail(s))

\* line 43
Normalise(s) == CollapseBlanks(Strip(s))

RECURSIVE SkipWhile(_, _)
SkipWhile(s, S) == IF s # <<>> /\ Head(s) \in S THEN SkipWhile(Tail(s), S) ELSE s

\* re.split(r"[!;...]\s*|\n+", s): a terminator with the whitespace after it, or a
\* run of newlines, ends a piece; the last piece is returned even when empty
RECURSIVE ReSplitFrom(_, _, _)
ReSplitFrom(s, cur, acc) ==
    IF s = <<>> THEN Append(acc, cur)
    ELSE IF Head(s) \in Terminators
         THEN ReSplitFrom(SkipWhile(Tail(s), Whitespace), <<>>, Append(acc, cur))
    ELSE IF Head(s) = "\n"
         THEN ReSplitFrom(SkipWhile(Tail(s), {"\n"}), <<>>, Append(acc, cur))
    ELSE ReSplitFrom(Tail(s), Append(cur, Head(s)), acc)

ReSplit(s) == ReSplitFrom(s, <<>>, <<>>)

KeepSentencesUnfiltered(ps) == [k \in DOMAIN ps |-> Strip(ps[k])]

\* line 44's comprehension: [s.strip() for s in pieces if s.strip()]
KeepSentences(ps) ==
    LET kept == SelectSeq(ps, LAMBDA p : Strip(p) # <<>>)
    IN [k \in DOMAIN kept |-> Strip(kept[k])]

SplitSentences(t) == KeepSentences(ReSplit(Normalise(t)))

\* t.split("/", 1)[0] for a token holding "/", else the token
RECURSIVE BeforeSlash(_)
BeforeSlash(t) ==
    IF t = <<>> \/ Head(t) = "/" THEN <<>> ELSE <<Head(t)>> \o BeforeSlash(Tail(t))

GetWords(sentence) ==
    LET ts == Split(sentence) IN [k \in DOMAIN ts |-> BeforeSlash(ts[k])]

(***************************************************************************)
(* Inputs of eval_query: queries typed as text, and word lists.            *)
(***************************************************************************)
Terms == {<<"a">>, <<"b">>, <<"c">>}
Binary == {<<"A", "N", "D">>, <<"O", "R">>}
Parens == {<<"(">>, <<")">>}
\* any mix of two terms, the three operators and parentheses
Lexemes == {<<"a">>, <<"b">>} \cup Binary \cup {<<"N", "O", "T">>} \cup Parens

SeqsUpTo(S, n) == UNION {[1..m -> S] : m \in 0..n}

\* the lexemes written one after the other, separated by one space; when tight,
\* no space is written next to a parenthesis
RECURSIVE Join(_, _)
Join(ls, tight) ==
    IF ls = <<>> THEN <<>>
    ELSE IF Len(ls) = 1 THEN ls[1]
    ELSE LET sep == IF tight /\ (ls[1] \in Parens \/ ls[2] \in Parens)
                    THEN <<>> ELSE <<" ">>
         IN ls[1] \o sep \o Join(Tail(ls), tight)

GeneralQueries == {Join(ls, tight) : ls \in SeqsUpTo(Lexemes, MaxTokens), tight \in BOOLEAN}

\* term op term op ... term, with AND and OR only
RECURSIVE Alternating(_)
Alternating(n) ==
    IF n = 1 THEN {<<t>> : t \in Terms}
    ELSE {ls \o <<o, t>> : ls \in Alternating(n - 1),
                           o \in Binary \cup {<<"o", "r">>}, t \in Terms}

AlternatingQueries == {Join(ls, FALSE) : ls \in UNION {Alternating(n) : n \in 1..MaxOperands}}

\* terms and AND/OR in any arrangement, joined by spaces
JuxtaposedQueries == {Join(ls, FALSE) : ls \in SeqsUpTo(Terms \cup Binary, MaxTokens)}


WordPool == <<<<"A">>, <<"b">>, <<"c">>>>

RECURSIVE Pick(_, _)
Pick(pool, S) ==
    IF pool = <<>> THEN <<>>
    ELSE (IF Len(pool) \in S THEN Pick(SubSeq(pool, 1, Len(pool) - 1), S) \o <<pool[Len(pool)]>>
          ELSE Pick(SubSeq(pool, 1, Len(pool) - 1), S))

WordLists == {Pick(WordPool, S) : S \in SUBSET DOMAIN WordPool}
\* the word lists that tell the two terms of Lexemes apart
ShortWordLists == {Pick(WordPool, S) : S \in SUBSET {1, 2}}

(***************************************************************************)
(* eval_query, statement by statement.                                     *)
(***************************************************************************)
EvalIdle ==
    /\ tokens = <<>> /\ ti = 0 /\ stack = <<>> /\ ri = 0
    /\ result = "None" /\ op = "None" /\ ret = "unset"

SegIdle == raw = <<>> /\ text = <<>> /\ pieces = <<>> /\ sents = <<>>

ScriptIdle ==
    /\ corpus = <<>> /\ sentences_map = <<>> /\ fi = 0 /\ idx = 0
    /\ rows = <<>> /\ match_counts = <<>> /\ total = 0

InitEval ==
    /\ pc = "tokenize"
    /\ \/ query \in GeneralQueries /\ words \in ShortWordLists
       \/ query \in AlternatingQueries \cup JuxtaposedQueries /\ words \in WordLists
    /\ EvalIdle /\ SegIdle /\ ScriptIdle

\* lines 64-65 and 72
TokenizeStep ==
    /\ pc = "tokenize"
    /\ tokens' = Tokenize(query)
    /\ stack' = <<>>
    /\ ti' = 1
    /\ pc' = "walk"
    /\ UNCHANGED <<query, words, ri, result, op, ret, segVars, scriptVars>>

Walk(isKind) ==
    /\ pc = "walk"
    /\ ti <= Len(tokens)
    /\ isKind
    /\ stack' = PushToken(stack, tokens[ti], words)
    /\ ti' = ti + 1
    /\ UNCHANGED <<pc, query, words, tokens, ri, result, op, ret, segVars, scriptVars>>

CurTok == tokens[ti]

\* lines 74-79
WalkNot == Walk(CurTok = TokNOT)
\* lines 80-81
WalkAnd == Walk(CurTok = TokAND)
\* lines 82-83
WalkOr == Walk(CurTok = TokOR)
\* lines 84-86
WalkParen == Walk(CurTok \in {TokLParen, TokRParen})
\* lines 87-88
WalkTerm == Walk(CurTok \notin {TokNOT, TokAND, TokOR, TokLParen, TokRParen})

\* the first loop ends; lines 91-92
WalkEnd ==
    /\ pc = "walk"
    /\ ti > Len(tokens)
    /\ result' = "None"
    /\ op' = "None"
    /\ ri' = 1
    /\ pc' = "reduce"
    /\ UNCHANGED <<query, words, tokens, ti, stack, ret, segVars, scriptVars>>

Reduce(isKind) ==
    /\ pc = "reduce"
    /\ ri <= Len(stack)
    /\ isKind
    /\ LET acc == FoldItem([result |-> result, op |-> op], stack[ri])
       IN result' = acc.result /\ op' = acc.op
    /\ ri' = ri + 1
    /\ UNCHANGED <<pc, query, words, tokens, ti, stack, ret, segVars, scriptVars>>

\* lines 94-100
ReduceBool == Reduce(IsBool(stack[ri]))
\* lines 101-102
ReduceMarker == Reduce(~IsBool(stack[ri]))

\* line 103
Return ==
    /\ pc = "reduce"
    /\ ri > Len(stack)
    /\ ret' = ReturnValue(result)
    /\ pc' = "done"
    /\ UNCHANGED <<query, words, tokens, ti, stack, ri, result, op, segVars, scriptVars>>

NextEval ==
    \/ TokenizeStep
    \/ WalkNot \/ WalkAnd \/ WalkOr \/ WalkParen \/ WalkTerm \/ WalkEnd
    \/ ReduceBool \/ ReduceMarker
    \/ Return

SpecEval == InitEval /\ [][NextEval]_vars

(***************************************************************************)
(* Properties of eval_query, checked under SpecEval.                       *)
(***************************************************************************)
\* the sentence holds the term, whatever the case of either
HasWord(term) == \E k \in DOMAIN words : Lower(words[k]) = Lower(term)

IsTerm(t) == t \notin {TokNOT, TokAND, TokOR, TokLParen, TokRParen}
IsBinary(t) == t \in {TokAND, TokOR}

\* C1: for distinct terms A and B, "A AND NOT B" is true exactly when the
\* sentence holds a and does not hold b.
C1_AndNotExcludes ==
    (pc = "done" /\ Len(tokens) = 4 /\ IsTerm(tokens[1]) /\ tokens[2] = TokAND
        /\ tokens[3] = TokNOT /\ IsTerm(tokens[4]) /\ tokens[1] # tokens[4])
    => (ret = "True" <=> (HasWord(tokens[1]) /\ ~HasWord(tokens[4])))

\* term op term op ... term, with AND and OR only
IsAlternating(ts) ==
    /\ Len(ts) % 2 = 1
    /\ \A k \in DOMAIN ts : IF k % 2 = 1 THEN IsTerm(ts[k]) ELSE IsBinary(ts[k])

\* ((t1 op1 t2) op2 t3) ...
RECURSIVE LeftFold(_)
LeftFold(ts) ==
    IF Len(ts) = 1 THEN HasWord(ts[1])
    ELSE LET left == LeftFold(SubSeq(ts, 1, Len(ts) - 2))
         IN IF ts[Len(ts) - 1] = TokAND THEN left /\ HasWord(ts[Len(ts)])
            ELSE left \/ HasWord(ts[Len(ts)])

\* C2: a query that alternates terms with AND/OR evaluates to the strict
\* left-to-right fold of its terms, AND having no precedence over OR.
C2_LeftToRightFold ==
    (pc = "done" /\ IsAlternating(tokens)) => ret = FromBool(LeftFold(tokens))

\* "a OR b AND c" on a sentence holding only a: (a OR b) AND c is false
C2_Witness ==
    /\ pc = "done"
    /\ tokens = <<<<"A">>, TokOR, <<"B">>, TokAND, <<"C">>>>
    /\ words = <<<<"A">>>>
    /\ ret = "False"

\* C6: eval_query never fails, whatever the tokens: each loop always has a next
\* step to take and its index only grows up to the end, and the value returned
\* is a boolean, False when no token is an operand or NOT, True for a lone NOT.
C6_NeverFails ==
    /\ pc \in {"tokenize", "walk", "reduce", "done"}
    /\ pc = "walk" =>
         ENABLED (WalkNot \/ WalkAnd \/ WalkOr \/ WalkParen \/ WalkTerm \/ WalkEnd)
    /\ pc = "reduce" => ENABLED (ReduceBool \/ ReduceMarker \/ Return)
    /\ pc = "walk" => ti \in 1..(Len(tokens) + 1) /\ Len(stack) < ti
    /\ pc = "reduce" => ri \in 1..(Len(stack) + 1)
    /\ pc = "done" =>
         /\ IsBool(ret)
         /\ (\A k \in DOMAIN tokens : tokens[k] \in {TokAND, TokOR, TokLParen, TokRParen})
                => ret = "False"
         /\ tokens = <<TokNOT>> => ret = "True"

\* a query of operators and parentheses only has returned False
C6_Witness ==
    /\ pc = "done"
    /\ tokens = <<TokLParen, TokAND, TokRParen, TokOR>>
    /\ ret = "False"

\* what C8 says NOT does to the stack: the last boolean of the stack, wherever
\* it is, is negated in place; True is pushed only when the stack holds none
ClaimedNotStep(st) ==
    IF \E k \in DOMAIN st : IsBool(st[k])
    THEN LET k == CHOOSE j \in DOMAIN st :
                      IsBool(st[j]) /\ \A m \in DOMAIN st : m > j => ~IsBool(st[m])
         IN [st EXCEPT ![k] = PyNot(@)]
    ELSE Append(st, "True")

\* C8: a NOT token negates in place the most recently pushed boolean whenever
\* the stack holds one, also under a marker, and pushes True only otherwise.
C8_NotNegatesLastBoolean ==
    [][(pc = "walk" /\ ti <= Len(tokens) /\ tokens[ti] = TokNOT /\ ti' = ti + 1)
          => stack' = ClaimedNotStep(stack)]_vars

\* the query with each parenthesis replaced by a space
WithoutParens(q) == Replace(Replace(q, "(", <<" ">>), ")", <<" ">>)

\* C9: parentheses do not group: a query evaluates as the same query with each
\* parenthesis replaced by a space.
C9_ParensIgnored ==
    pc = "done" => ret = EvalQuery(WithoutParens(query), words)

\* "a AND(b" has been evaluated, on a sentence holding a and b
C9_Witness ==
    /\ pc = "done"
    /\ query = <<"a", " ", "A", "N", "D", "(", "b">>
    /\ words = <<<<"A">>, <<"b">>>>
    /\ ret = "True"

\* the last AND/OR among the first n tokens, <<>> when there is none
LastMarker(ts, n) ==
    IF \E k \in 1..n : IsBinary(ts[k])
    THEN ts[CHOOSE k \in 1..n : IsBinary(ts[k]) /\ \A m \in (k + 1)..n : ~IsBinary(ts[m])]
    ELSE <<>>

\* the value of the first n tokens: the first term seeds it, a later term is
\* folded with the last marker before it and ignored when there is none
RECURSIVE Juxtaposed(_, _)
Juxtaposed(ts, n) ==
    IF ~IsTerm(ts[n]) THEN Juxtaposed(ts, n - 1)
    ELSE IF \A k \in 1..(n - 1) : ~IsTerm(ts[k]) THEN HasWord(ts[n])
    ELSE IF LastMarker(ts, n) = TokAND THEN Juxtaposed(ts, n - 1) /\ HasWord(ts[n])
    ELSE IF LastMarker(ts, n) = TokOR THEN Juxtaposed(ts, n - 1) \/ HasWord(ts[n])
    ELSE Juxtaposed(ts, n - 1)

\* C10: in a query of terms and AND/OR, a term after the first is ignored while
\* no marker has been seen, and is otherwise folded with the last marker seen,
\* new or not: "A B C" is A, and "A AND B C" is A AND B AND C.
C10_JuxtaposedTerms ==
    (pc = "done" /\ (\E k \in DOMAIN tokens : IsTerm(tokens[k]))
        /\ (\A k \in DOMAIN tokens : IsTerm(tokens[k]) \/ IsBinary(tokens[k])))
    => /\ ret = FromBool(Juxtaposed(tokens, Len(tokens)))
       /\ (\A k \in DOMAIN tokens : IsTerm(tokens[k])) => ret = FromBool(HasWord(tokens[1]))
       /\ (Len(tokens) = 4 /\ tokens[2] = TokAND /\ \A k \in {1, 3, 4} : IsTerm(tokens[k]))
             => ret = FromBool(HasWord(tokens[1]) /\ HasWord(tokens[3]) /\ HasWord(tokens[4]))

\* "a AND b c" on a sentence holding a and b but not c is false
C10_Witness ==
    /\ pc = "done"
    /\ tokens = <<<<"A">>, TokAND, <<"B">>, <<"C">>>>
    /\ words = <<<<"A">>, <<"b">>>>
    /\ ret = "False"

(***************************************************************************)
(* split_sentences, statement by statement, on any short text.             *)
(***************************************************************************)
Alphabet == {"a", "b", " ", "\t", "\n", "!"}
Texts == SeqsUpTo(Alphabet, MaxTextLen)

InitSegment ==
    /\ pc = "seg_normalise"
    /\ raw \in Texts
    /\ text = raw
    /\ pieces = <<>> /\ sents = <<>>
    /\ query = <<>> /\ words = <<>>
    /\ EvalIdle /\ ScriptIdle

\* line 43
SegNormalise ==
    /\ pc = "seg_normalise"
    /\ text' = Normalise(text)
    /\ pc' = "seg_split"
    /\ UNCHANGED <<query, evalVars, raw, pieces, sents, scriptVars>>

\* line 44: re.split
SegSplit ==
    /\ pc = "seg_split"
    /\ pieces' = ReSplit(text)
    /\ pc' = "seg_keep"
    /\ UNCHANGED <<query, evalVars, raw, text, sents, scriptVars>>

\* line 44: the comprehension and the return
SegKeep ==
    /\ pc = "seg_keep"
    /\ sents' = KeepSentences(pieces)
    /\ pc' = "seg_done"
    /\ UNCHANGED <<query, evalVars, raw, text, pieces, scriptVars>>

NextSegment == SegNormalise \/ SegSplit \/ SegKeep

SpecSegment == InitSegment /\ [][NextSegment]_vars

(***************************************************************************)
(* Properties of split_sentences, checked under SpecSegment.               *)
(***************************************************************************)
\* the characters of s that are neither whitespace nor terminators, in order
Visible(s) == SelectSeq(s, LAMBDA c : c \notin Whitespace \cup Terminators)

\* C7: split_sentences returns no empty and no whitespace-only entry; its
\* entries follow one another as their characters do in the text (read one
\* after the other they spell the text's visible characters, in order); and
\* an empty or whitespace-only text gives the empty list.
C7_SegmentEntries ==
    pc = "seg_done" =>
        /\ \A k \in DOMAIN sents : \E j \in DOMAIN sents[k] : sents[k][j] \notin Whitespace
        /\ Visible(Concat(sents)) = Visible(raw)
        /\ (\A j \in DOMAIN raw : raw[j] \in Whitespace) => sents = <<>>

\* a text whose pieces include empty and blank ones has been split in two
C7_Witness ==
    /\ pc = "seg_done"
    /\ raw = <<"b", "!", "\n", " ", "a">>
    /\ sents = <<<<"b">>, <<"a">>>>

(***************************************************************************)
(* The script: the form, the corpus load, the guard, the search loop and   *)
(* the total.  A source is named by its position in GITHUB_FILES.          *)
(***************************************************************************)
EnumerateStart == 1

Sources == 1..NumSources

\* the texts fetch_text may return: "" when the request fails, else up to
\* MaxSents annotated sentences, each with its terminator
Blocks == {<<"a", "/", "n", " ", "b", "/", "v", "!", " ">>,
           <<"B", "/", "n", " ", " ", "c", "\n">>}
RawTexts == {Concat(bs) : bs \in SeqsUpTo(Blocks, MaxSents)}

SearchQueries ==
    {Join(ls, FALSE) : ls \in {<<>>, <<<<"b">>>>, <<<<"a">>, <<"a", "n", "d">>, <<"b">>>>,
                               <<<<"a">>, <<"O", "R">>, <<"c">>>>,
                               <<<<"c">>, <<"N", "O", "T">>>>}}

AnySentencesUnguarded(sm) == TRUE

\* any(sentences_map.values())
AnySentences(sm) == \E n \in DOMAIN sm : sm[n] # <<>>

MakeRowZeroBased(fname, i, s) == [file |-> fname, ord |-> i - 1, sent |-> s]

\* {"文件": fname, "句号": idx, "句子（含词性）": s}
MakeRow(fname, i, s) == [file |-> fname, ord |-> i, sent |-> s]

IncrementOverwriting(mc, fname) ==
    [n \in DOMAIN mc \cup {fname} |-> IF n = fname THEN 1 ELSE mc[n]]

\* match_counts[fname] += 1 on a defaultdict(int)
Increment(mc, fname) ==
    [n \in DOMAIN mc \cup {fname} |->
        IF n = fname THEN (IF fname \in DOMAIN mc THEN mc[fname] ELSE 0) + 1 ELSE mc[n]]

\* match_counts.get(name, 0)
Tally(mc, name) == IF name \in DOMAIN mc THEN mc[name] ELSE 0

RECURSIVE SumOver(_, _)
SumOver(mc, S) ==
    IF S = {} THEN 0
    ELSE LET n == CHOOSE m \in S : TRUE IN mc[n] + SumOver(mc, S \ {n})

\* sum(match_counts.values())
SumValues(mc) == SumOver(mc, DOMAIN mc)

InitSearch ==
    /\ pc = "form"
    /\ query \in SearchQueries
    /\ words = <<>>
    /\ EvalIdle /\ SegIdle /\ ScriptIdle

\* lines 108-113: the form is submitted
Submit ==
    /\ pc = "form"
    /\ corpus' = <<>>
    /\ sentences_map' = <<>>
    /\ fi' = 1
    /\ pc' = "load"
    /\ UNCHANGED <<query, evalVars, segVars, idx, rows, match_counts, total>>

\* lines 155-156: the form is shown and not submitted
NoSubmit ==
    /\ pc = "form"
    /\ pc' = "idle"
    /\ UNCHANGED <<query, evalVars, segVars, scriptVars>>

\* lines 117-120: one source is fetched and split
Load ==
    /\ pc = "load"
    /\ fi <= NumSources
    /\ \E r \in RawTexts :
         /\ corpus' = Append(corpus, r)
         /\ sentences_map' = Append(sentences_map, IF r # <<>> THEN SplitSentences(r) ELSE <<>>)
    /\ fi' = fi + 1
    /\ UNCHANGED <<pc, query, evalVars, segVars, idx, rows, match_counts, total>>

\* lines 122-124: nothing was fetched, the script stops with a warning
GuardStop ==
    /\ pc = "load"
    /\ fi > NumSources
    /\ ~AnySentences(sentences_map)
    /\ pc' = "stopped"
    /\ UNCHANGED <<query, evalVars, segVars, scriptVars>>

\* lines 122, 127-130: the guard passes, the search starts on the first source
GuardPass ==
    /\ pc = "load"
    /\ fi > NumSources
    /\ AnySentences(sentences_map)
    /\ rows' = <<>>
    /\ match_counts' = <<>>
    /\ fi' = 1
    /\ idx' = EnumerateStart
    /\ pc' = "scan"
    /\ UNCHANGED <<query, evalVars, segVars, corpus, sentences_map, total>>

\* the sentence enumerate yields with index idx
CurSentence == sentences_map[fi][idx - EnumerateStart + 1]

Scanning ==
    /\ pc = "scan"
    /\ fi <= NumSources
    /\ idx - EnumerateStart + 1 <= Len(sentences_map[fi])

\* lines 131-135, a sentence the query matches
ScanMatch ==
    /\ Scanning
    /\ EvalQuery(query, GetWords(CurSentence)) = "True"
    /\ rows' = Append(rows, MakeRow(fi, idx, CurSentence))
    /\ match_counts' = Increment(match_counts, fi)
    /\ idx' = idx + 1
    /\ UNCHANGED <<pc, query, evalVars, segVars, corpus, sentences_map, fi, total>>

\* lines 131-133, a sentence the query does not match
ScanSkip ==
    /\ Scanning
    /\ EvalQuery(query, GetWords(CurSentence)) # "True"
    /\ idx' = idx + 1
    /\ UNCHANGED <<pc, query, evalVars, segVars, corpus, sentences_map, fi, rows,
                   match_counts, total>>

\* lines 130-131: the inner loop ends, the next source starts
ScanNextSource ==
    /\ pc = "scan"
    /\ fi <= NumSources
    /\ idx - EnumerateStart + 1 > Len(sentences_map[fi])
    /\ fi' = fi + 1
    /\ idx' = EnumerateStart
    /\ UNCHANGED <<pc, query, evalVars, segVars, corpus, sentences_map, rows,
                   match_counts, total>>

\* line 138, and the display that follows
Metrics ==
    /\ pc = "scan"
    /\ fi > NumSources
    /\ total' = SumValues(match_counts)
    /\ pc' = "done"
    /\ UNCHANGED <<query, evalVars, segVars, corpus, sentences_map, fi, idx, rows,
                   match_counts>>

NextSearch ==
    \/ Submit \/ NoSubmit
    \/ Load \/ GuardStop \/ GuardPass
    \/ ScanMatch \/ ScanSkip \/ ScanNextSource
    \/ Metrics

SpecSearch == InitSearch /\ [][NextSearch]_vars

(***************************************************************************)
(* Properties of the search, checked under SpecSearch.                     *)
(***************************************************************************)
\* the query matches sentence i of source f
Matches(f, i) == EvalQuery(query, GetWords(sentences_map[f][i])) = "True"

\* the records of the sentences of source f that match, among its first n
RECURSIVE ExpectedOf(_, _)
ExpectedOf(f, n) ==
    IF n = 0 THEN <<>>
    ELSE ExpectedOf(f, n - 1)
         \o (IF Matches(f, n)
             THEN <<[file |-> f, ord |-> n, sent |-> sentences_map[f][n]]>> ELSE <<>>)

\* the records of all the sentences of the sources before f that match
RECURSIVE ExpectedBefore(_)
ExpectedBefore(f) ==
    IF f = 1 THEN <<>>
    ELSE ExpectedBefore(f - 1) \o ExpectedOf(f - 1, Len(sentences_map[f - 1]))

\* the records expected at this point of the scan
Scanned ==
    IF fi > NumSources THEN ExpectedBefore(NumSources + 1)
    ELSE ExpectedBefore(fi) \o ExpectedOf(fi, idx - EnumerateStart)

\* C3: the match records are exactly the sentences the query matches, in source
\* order then 1-based ordinal order, each (source, ordinal) once, each with the
\* sentence as split_sentences returned it, annotations included.
C3_MatchesInOrder ==
    pc \in {"scan", "done"} =>
        /\ rows = Scanned
        /\ \A j, k \in DOMAIN rows :
             j < k => \/ rows[j].file < rows[k].file
                      \/ rows[j].file = rows[k].file /\ rows[j].ord < rows[k].ord
        /\ \A k \in DOMAIN rows :
             /\ rows[k].ord \in 1..Len(sentences_map[rows[k].file])
             /\ rows[k].sent = sentences_map[rows[k].file][rows[k].ord]

\* "a and b" has matched the second sentence of source 1, not the first, and
\* the same annotated sentence in source 2
C3_Witness ==
    /\ pc = "done"
    /\ Len(rows) = 2
    /\ rows[1] = [file |-> 1, ord |-> 2, sent |-> <<"a", "/", "n", " ", "b", "/", "v">>]
    /\ rows[2] = [file |-> 2, ord |-> 1, sent |-> <<"a", "/", "n", " ", "b", "/", "v">>]
    /\ Len(sentences_map[1]) = 2

\* C4: throughout the scan and at its end the tallies sum to the number of
\* match records, and the total shown is that sum.
C4_TallySum ==
    /\ pc \in {"scan", "done"} => SumValues(match_counts) = Len(rows)
    /\ pc = "done" => total = Len(rows)

\* both sources have matches, one of them two
C4_Witness ==
    /\ pc = "done"
    /\ DOMAIN match_counts = {1, 2}
    /\ match_counts[1] = 2
    /\ match_counts[2] = 1
    /\ total = 3

AllEmpty == \A n \in DOMAIN sentences_map : sentences_map[n] = <<>>
Loaded == pc \in {"stopped", "scan", "done"}

\* C5 as stated: with every sentence list empty the search still runs to
\* completion, with no match and every tally 0, and the request is not aborted.
C5_EmptyCorpusRunsToCompletion ==
    (Loaded /\ AllEmpty) =>
        /\ pc \in {"scan", "done"}
        /\ rows = <<>>
        /\ \A n \in Sources : Tally(match_counts, n) = 0

\* C5 amended: with every sentence list empty the script stops at the guard,
\* before the search loop: no match record and no tally entry exists, so every
\* source's count reads 0; and the script stops there in no other case.
C5_EmptyCorpusStopsAtGuard ==
    Loaded =>
        /\ (pc = "stopped") <=> AllEmpty
        /\ AllEmpty => rows = <<>> /\ match_counts = <<>>
                         /\ \A n \in Sources : Tally(match_counts, n) = 0

\* every fetch failed and the script has stopped
C5_Witness ==
    /\ pc = "stopped"
    /\ Len(corpus) = NumSources
    /\ \A n \in DOMAIN corpus : corpus[n] = <<>>
    /\ AllEmpty

====
